---- MODULE Spec2Model ----
(***************************************************************************)
(* A model of the hyperspectral cube reader of src/hsi_data_reader.{h,cpp}: *)
(* one HSIDataReader (data_options_, machine_big_endian_, hsi_data_), the   *)
(* files it reads and writes, and the caller's calls ReadData, WriteData,   *)
(* GetValue and the re-read of the saved file (test_reader.cpp). Further    *)
(* specifications take the same reader through ReadData and GetSpectrum,    *)
(* and exercise ReverseBytes on its own and                                 *)
(* HSIDataOptions::ReadHeaderFromFile on a set of config files.             *)
(*                                                                         *)
(* The data file holds byte value i at (1-based) byte position i, so that   *)
(* every byte of the cube tells which byte of the file it was read from.    *)
(* The code never branches on the data it reads, so this content stands for *)
(* any content.                                                             *)
(***************************************************************************)
EXTENDS Integers, Sequences, FiniteSets, TLC

VARIABLES
    data_options_,        \* HSIDataReader::data_options_ (const after construction)
    machine_big_endian_,  \* HSIDataReader::machine_big_endian_
    hsi_data_,            \* HSIDataReader::hsi_data_
    hsi_data_2,           \* reader_2's hsi_data_ in test_reader.cpp
    fs,                   \* the files: path -> [exists, bytes]
    status,               \* "running", or "exited" after FatalError's exit(-1)
    err,                  \* the last message written by Error(), "" when none
    op,                   \* the last call that ran: "none", "ReadData", ...
    data_range,           \* the HSIDataRange argument of the last ReadData
    read_offsets,         \* byte offset of every element read by the last ReadData
    replaced,             \* whether the last ReadData found data of an earlier read
    ret,                  \* what the last GetValue returned
    spectrum,             \* what the last GetSpectrum returned
    io,                   \* the file events of the last ReadData or WriteData
    byte_buffer,          \* the char* buffer handed to ReverseBytes
    byte_buffer_in,       \* that buffer before the first ReverseBytes
    reversals,            \* the number of ReverseBytes calls on the buffer
    options,              \* the HSIDataOptions that ReadHeaderFromFile fills
    options_in,           \* those options before the load
    configs,              \* the config files: path -> key/value map
    header_call,          \* the pending call of ReadHeaderFromFile, if any
    chain,                \* the paths ReadHeaderFromFile was called with, in order
    sized,                \* the options and cube whose sizes and indices are computed
    arith                 \* the last size or index computed: the code's and the exact one

\* The state of the reader and its caller.
reader_vars == <<data_options_, machine_big_endian_, hsi_data_, hsi_data_2, fs,
                 op, data_range, read_offsets, replaced, ret, spectrum, io>>

\* The state of a buffer under ReverseBytes.
reverse_vars == <<byte_buffer, byte_buffer_in, reversals>>

\* The state of a load of the options from config files.
header_vars == <<options, options_in, configs, header_call, chain>>

\* The state of the size and index arithmetic at the width of the
\* program's integers.
arith_vars == <<sized, arith>>

vars == <<reader_vars, status, err, reverse_vars, header_vars, arith_vars>>

----------------------------------------------------------------------------
(* Bounds of the model. *)

\* The width in bits of the program's int in the arithmetic of the sizes
\* and indices, scaled down from 32, and of its long, scaled down from 64.
IntBits == 6
LongBits == 12

\* Largest dimension on one axis of a cube whose sizes are computed: the
\* product of two of them passes the largest int.
MaxWideDim == 6

\* Largest full-cube dimension on one axis.
MaxDim == 2
\* Largest number of elements of a full cube.
MaxElems == 8
\* Largest header_offset.
MaxHeader == 1
\* Largest number of elements of a cube read as every type and byte order.
MaxSmallElems == 2
\* Largest byte value of a buffer handed to ReverseBytes on its own.
MaxByte == 1
\* Largest number of ReverseBytes calls on one buffer.
MaxReversals == 2
\* Largest header_offset of a reader whose caller only reads.
MaxSeekHeader == 2
\* Largest number of ReadHeaderFromFile calls with one path.
MaxVisits == 2

----------------------------------------------------------------------------
(* Values. *)

InterleaveFormats == {"BSQ", "BIP", "BIL"}

DataTypes == {"BYTE", "INT16", "INT32", "FLOAT", "DOUBLE", "UNSIGNED_INT16",
              "UNSIGNED_INT32", "UNSIGNED_INT64", "UNSIGNED_LONG"}

\* A byte the program never wrote: the content of an uninitialised buffer or
\* of memory past the end of raw_data. It differs from every byte of a file.
IndeterminateByte == -1

DataPath == "cube.dat"
MissingPath == "missing.dat"
SavePath == "./tmp_data"
UnwritablePath == "/nodir/tmp_data"
Paths == {DataPath, MissingPath, SavePath, UnwritablePath}

NoFile == [exists |-> FALSE, bytes |-> <<>>]

\* HSIDataRange's default member initialisers.
DefaultRange ==
    [start_band |-> 0, end_band |-> 0, start_row |-> 0, end_row |-> 0,
     start_col |-> 0, end_col |-> 0]

\* HSIData's default member initialisers.
DefaultHSIData ==
    [num_rows |-> 0, num_cols |-> 0, num_bands |-> 0,
     interleave_format |-> "BSQ", data_type |-> "FLOAT", raw_data |-> <<>>]

\* HSIDataValue(): value_as_uint64(0), all eight bytes zero.
HSIDataValue == [i \in 1..8 |-> 0]

NoReturn == [row |-> 0, col |-> 0, band |-> 0, value |-> HSIDataValue,
             indexed |-> FALSE]

NoSpectrum == [row |-> 0, col |-> 0, values |-> <<>>, calls |-> 0]

\* HSIDataOptions' default member initialisers.
DefaultOptions ==
    [hsi_file_path |-> "", interleave_format |-> "BSQ", data_type |-> "FLOAT",
     big_endian |-> FALSE, header_offset |-> 0, num_data_rows |-> 0,
     num_data_cols |-> 0, num_data_bands |-> 0]

\* No call of ReadHeaderFromFile is pending.
NoCall == [pending |-> FALSE, header_file_path |-> <<>>]

\* No buffer is under ReverseBytes.
ReverseIdle ==
    /\ byte_buffer = <<>>
    /\ byte_buffer_in = <<>>
    /\ reversals = 0

\* No options are being loaded from a config.
HeaderIdle ==
    /\ options = DefaultOptions
    /\ options_in = DefaultOptions
    /\ configs = <<>>
    /\ header_call = NoCall
    /\ chain = <<>>

\* No size or index was computed.
NoArith == [call |-> "none", got |-> <<>>, exact |-> <<>>]

\* No size or index arithmetic is under way.
ArithIdle ==
    /\ sized = [interleave_format |-> "BSQ", data_type |-> "FLOAT",
                shape |-> <<0, 0, 0>>]
    /\ arith = NoArith

\* No reader was constructed.
ReaderIdle ==
    /\ data_options_ = DefaultOptions
    /\ machine_big_endian_ = FALSE
    /\ hsi_data_ = DefaultHSIData
    /\ hsi_data_2 = DefaultHSIData
    /\ fs = [p \in Paths |-> NoFile]
    /\ op = "none"
    /\ data_range = DefaultRange
    /\ read_offsets = <<>>
    /\ replaced = FALSE
    /\ ret = NoReturn
    /\ spectrum = NoSpectrum
    /\ io = <<>>

----------------------------------------------------------------------------
(* Support functions. *)

GetDataSize(data_type) ==
    CASE data_type = "BYTE" -> 1
      [] data_type = "INT16" -> 2
      [] data_type = "INT32" -> 4
      [] data_type = "DOUBLE" -> 8
      [] data_type = "UNSIGNED_INT16" -> 2
      [] data_type = "UNSIGNED_INT32" -> 4
      [] data_type = "UNSIGNED_INT64" -> 8
      [] data_type = "UNSIGNED_LONG" -> 8
      [] OTHER -> 4

\* ReverseLoop with the loop run to data_size in place of data_size / 2.
RECURSIVE ReverseLoopWhole(_, _, _)
ReverseLoopWhole(data_size, bytes, i) ==
    IF i < data_size
    THEN ReverseLoopWhole(data_size,
                          [bytes EXCEPT ![i + 1] = bytes[data_size - i],
                                        ![data_size - i] = bytes[i + 1]],
                          i + 1)
    ELSE bytes

\* One iteration of ReverseBytes' loop: swap bytes[i] and bytes[data_size-1-i]
\* (0-based i; the sequence is 1-based).
SwapBytes(data_size, bytes, i) ==
    [bytes EXCEPT ![i + 1] = bytes[data_size - i],
                  ![data_size - i] = bytes[i + 1]]

RECURSIVE ReverseLoop(_, _, _)
ReverseLoop(data_size, bytes, i) ==
    IF i < data_size \div 2
    THEN ReverseLoop(data_size, SwapBytes(data_size, bytes, i), i + 1)
    ELSE bytes

ReverseBytes(data_size, bytes) == ReverseLoop(data_size, bytes, 0)

\* n bytes of `bytes` from 0-based offset `from`; a byte that is not there
\* is indeterminate.
BytesAt(bytes, from, n) ==
    [k \in 1..n |-> IF from + k \in 1..Len(bytes)
                    THEN bytes[from + k] ELSE IndeterminateByte]

----------------------------------------------------------------------------
(* Reading. A stream st is [pos, raw_data, offsets]: the file position of   *)
(* the std::ifstream in bytes, the vector being filled, and (for the        *)
(* claims) the byte offset each element was read from.                      *)

\* ReadNextValue: seek when the next index is past current + 1, read
\* data_size bytes at the file position, reverse them if asked, append them.
ReadNextValue(next_value_index, current_value_index, data_size, content, st, reverse_byte_order) ==
    LET pos == IF next_value_index > current_value_index + 1
               THEN next_value_index * data_size
               ELSE st.pos
        next_bytes == BytesAt(content, pos, data_size)
    IN  [pos |-> pos + data_size,
         raw_data |-> st.raw_data \o
                      (IF reverse_byte_order
                       THEN ReverseBytes(data_size, next_bytes)
                       ELSE next_bytes),
         offsets |-> Append(st.offsets, pos)]

\* The body shared by the three traversal loops: ReadNextValue for
\* next_indices[k], then current_index = next_index.
RECURSIVE ReadValues(_, _, _, _, _, _, _)
ReadValues(next_indices, k, current_index, data_size, content, st, reverse_byte_order) ==
    IF k > Len(next_indices)
    THEN st
    ELSE ReadValues(next_indices, k + 1, next_indices[k], data_size, content,
                    ReadNextValue(next_indices[k], current_index, data_size,
                                  content, st, reverse_byte_order),
                    reverse_byte_order)

\* The number of iterations of three nested loops over a range.
NumIterations(range) ==
    LET nr == range.end_row - range.start_row
        nc == range.end_col - range.start_col
        nb == range.end_band - range.start_band
    IN  IF nr <= 0 \/ nc <= 0 \/ nb <= 0 THEN 0 ELSE nr * nc * nb

\* The (row, col, band) of the k-th iteration (k from 0) of the loops
\* for band { for row { for col } } of ReadDataBSQ.
LoopBSQ(range, k) ==
    LET nr == range.end_row - range.start_row
        nc == range.end_col - range.start_col
    IN  [band |-> range.start_band + (k \div (nr * nc)),
         row |-> range.start_row + ((k \div nc) % nr),
         col |-> range.start_col + (k % nc)]

\* for row { for band { for col } } of ReadDataBIL.
LoopBIL(range, k) ==
    LET nb == range.end_band - range.start_band
        nc == range.end_col - range.start_col
    IN  [row |-> range.start_row + (k \div (nb * nc)),
         band |-> range.start_band + ((k \div nc) % nb),
         col |-> range.start_col + (k % nc)]

\* for row { for col { for band } } of ReadDataBIP.
LoopBIP(range, k) ==
    LET nb == range.end_band - range.start_band
        nc == range.end_col - range.start_col
    IN  [row |-> range.start_row + (k \div (nc * nb)),
         col |-> range.start_col + ((k \div nb) % nc),
         band |-> range.start_band + (k % nb)]

\* next_index of ReadDataBSQ: band_index + pixel_index.
NextIndexBSQ(data_options, row, col, band) ==
    LET num_pixels_per_band ==
            data_options.num_data_rows * data_options.num_data_cols
        band_index == band * num_pixels_per_band
        pixel_index == row * data_options.num_data_cols + col
    IN  band_index + pixel_index

\* next_index of ReadDataBIL.
NextIndexBIL(data_options, row, col, band) ==
    LET num_values_per_row ==
            data_options.num_data_bands * data_options.num_data_cols
        row_index == row * num_values_per_row
    IN  row_index + band * data_options.num_data_cols + col

\* next_index of ReadDataBIP.
NextIndexBIP(data_options, row, col, band) ==
    LET num_values_per_row ==
            data_options.num_data_bands * data_options.num_data_cols
        row_index == row * num_values_per_row
    IN  row_index + col * data_options.num_data_bands + band

\* The stream after "Skip to current index": seekg(start_index * data_size).
SeekStart(start_index, data_size, raw_data) ==
    [pos |-> start_index * data_size, raw_data |-> raw_data, offsets |-> <<>>]

\* ReverseByteOrder from the file's byte order alone.
ReverseByteOrderOfFile(data_options, machine_big_endian) ==
    data_options.big_endian

\* reverse_byte_order of ReadDataBSQ, ReadDataBIL, ReadDataBIP and WriteData.
ReverseByteOrder(data_options, machine_big_endian) ==
    data_options.big_endian # machine_big_endian

\* The next_index of every iteration of ReadDataBSQ's loops, in order.
NextIndicesBSQ(data_options, range) ==
    [k \in 1..NumIterations(range) |->
        LET at == LoopBSQ(range, k - 1)
        IN  NextIndexBSQ(data_options, at.row, at.col, at.band)]

ReadDataBSQ(data_options, machine_big_endian, range, start_index, content, hsi_data) ==
    LET data_size == GetDataSize(hsi_data.data_type)
        next_indices == NextIndicesBSQ(data_options, range)
    IN  ReadValues(next_indices, 1, start_index, data_size, content,
                   SeekStart(start_index, data_size, hsi_data.raw_data),
                   ReverseByteOrder(data_options, machine_big_endian))

\* The next_index of every iteration of ReadDataBIL's loops, in order.
NextIndicesBIL(data_options, range) ==
    [k \in 1..NumIterations(range) |->
        LET at == LoopBIL(range, k - 1)
        IN  NextIndexBIL(data_options, at.row, at.col, at.band)]

ReadDataBIL(data_options, machine_big_endian, range, start_index, content, hsi_data) ==
    LET data_size == GetDataSize(hsi_data.data_type)
        next_indices == NextIndicesBIL(data_options, range)
    IN  ReadValues(next_indices, 1, start_index, data_size, content,
                   SeekStart(start_index, data_size, hsi_data.raw_data),
                   ReverseByteOrder(data_options, machine_big_endian))

\* The next_index of every iteration of ReadDataBIP's loops, in order.
NextIndicesBIP(data_options, range) ==
    [k \in 1..NumIterations(range) |->
        LET at == LoopBIP(range, k - 1)
        IN  NextIndexBIP(data_options, at.row, at.col, at.band)]

ReadDataBIP(data_options, machine_big_endian, range, start_index, content, hsi_data) ==
    LET data_size == GetDataSize(hsi_data.data_type)
        next_indices == NextIndicesBIP(data_options, range)
    IN  ReadValues(next_indices, 1, start_index, data_size, content,
                   SeekStart(start_index, data_size, hsi_data.raw_data),
                   ReverseByteOrder(data_options, machine_big_endian))

\* RangeError with the span checks < 0 in place of <= 0.
RangeErrorZeroSpan(data_options, range) ==
    IF range.start_row < 0 \/ range.end_row > data_options.num_data_rows
    THEN "Invalid row range"
    ELSE IF range.start_col < 0 \/ range.end_col > data_options.num_data_cols
    THEN "Invalid column range"
    ELSE IF range.start_band < 0 \/ range.end_band > data_options.num_data_bands
    THEN "Invalid band range"
    ELSE IF range.end_row - range.start_row < 0
    THEN "Row range must be positive"
    ELSE IF range.end_col - range.start_col < 0
    THEN "Column range must be positive"
    ELSE IF range.end_band - range.start_band < 0
    THEN "Band range must be positive"
    ELSE ""

\* The checks of ReadData before the file is opened: "" when the range
\* passes, else the message of the first FatalError.
RangeError(data_options, range) ==
    IF range.start_row < 0 \/ range.end_row > data_options.num_data_rows
    THEN "Invalid row range"
    ELSE IF range.start_col < 0 \/ range.end_col > data_options.num_data_cols
    THEN "Invalid column range"
    ELSE IF range.start_band < 0 \/ range.end_band > data_options.num_data_bands
    THEN "Invalid band range"
    ELSE IF range.end_row - range.start_row <= 0
    THEN "Row range must be positive"
    ELSE IF range.end_col - range.start_col <= 0
    THEN "Column range must be positive"
    ELSE IF range.end_band - range.start_band <= 0
    THEN "Band range must be positive"
    ELSE ""

BoundsErrors ==
    {"Invalid row range", "Invalid column range", "Invalid band range"}

SpanErrors ==
    {"Row range must be positive", "Column range must be positive",
     "Band range must be positive"}

\* WithSpans with raw_data.clear() ahead of the span checks.
WithSpansCleared(hsi_data, range) ==
    [hsi_data EXCEPT !.num_rows = range.end_row - range.start_row,
                     !.num_cols = range.end_col - range.start_col,
                     !.num_bands = range.end_band - range.start_band,
                     !.raw_data = <<>>]

\* hsi_data after the assignments of lines 518-520, which run once the three
\* bounds checks have passed and before the span checks.
WithSpans(hsi_data, range) ==
    [hsi_data EXCEPT !.num_rows = range.end_row - range.start_row,
                     !.num_cols = range.end_col - range.start_col,
                     !.num_bands = range.end_band - range.start_band]

\* Cleared without raw_data.clear().
ClearedKeepsData(data_options, hsi_data) ==
    [hsi_data EXCEPT !.interleave_format = data_options.interleave_format,
                     !.data_type = data_options.data_type]

\* hsi_data after lines 539-545: the buffer cleared, the format and the type
\* taken from the options.
Cleared(data_options, hsi_data) ==
    [hsi_data EXCEPT !.raw_data = <<>>,
                     !.interleave_format = data_options.interleave_format,
                     !.data_type = data_options.data_type]

\* The dispatch of lines 547-571 on the interleave format.
ReadDataDispatch(data_options, machine_big_endian, range, content, hsi_data) ==
    IF data_options.interleave_format = "BSQ"
    THEN ReadDataBSQ(data_options, machine_big_endian, range,
                     data_options.header_offset, content, hsi_data)
    ELSE IF data_options.interleave_format = "BIL"
    THEN ReadDataBIL(data_options, machine_big_endian, range,
                     data_options.header_offset, content, hsi_data)
    ELSE ReadDataBIP(data_options, machine_big_endian, range,
                     data_options.header_offset, content, hsi_data)

\* The file events of a ReadData that opened its file: std::ifstream
\* data_file is opened, read once per element, and closed by its destructor
\* when ReadData returns.
ReadDataEvents(offsets) ==
    <<"open">> \o [k \in 1..Len(offsets) |-> "read"] \o <<"close">>

\* HSIDataReader::ReadData on a reader (data_options, machine_big_endian,
\* hsi_data) with the files `files`: the reader's hsi_data when the call
\* ends, the message of the FatalError that ended it ("" when it returned),
\* the offsets read, and the file events of the call.
ReadDataResult(data_options, machine_big_endian, hsi_data, range, files) ==
    LET e == RangeError(data_options, range)
        spans == WithSpans(hsi_data, range)
        file == files[data_options.hsi_file_path]
        cleared == Cleared(data_options, spans)
        st == ReadDataDispatch(data_options, machine_big_endian, range,
                               file.bytes, cleared)
    IN  IF e \in BoundsErrors
        THEN [err |-> e, hsi_data |-> hsi_data, offsets |-> <<>>,
              io |-> <<>>]
        ELSE IF e \in SpanErrors
        THEN [err |-> e, hsi_data |-> spans, offsets |-> <<>>, io |-> <<>>]
        ELSE IF ~file.exists
        THEN [err |-> "could not be opened for reading",
              hsi_data |-> spans, offsets |-> <<>>,
              io |-> <<"open failed">>]
        ELSE [err |-> "",
              hsi_data |-> [cleared EXCEPT !.raw_data = st.raw_data],
              offsets |-> st.offsets,
              io |-> ReadDataEvents(st.offsets)]

----------------------------------------------------------------------------
(* Writing. *)

\* WriteValues with byte_index = i, the element size forgotten.
RECURSIVE WriteValuesByteIndex(_, _, _, _, _, _)
WriteValuesByteIndex(raw_data, i, num_data_points, data_size, reverse_byte_order, out) ==
    IF i < num_data_points
    THEN LET byte_index == i
             bytes == BytesAt(raw_data, byte_index, data_size)
         IN  WriteValuesByteIndex(raw_data, i + 1, num_data_points, data_size,
                                  reverse_byte_order,
                                  out \o (IF reverse_byte_order
                                          THEN ReverseBytes(data_size, bytes)
                                          ELSE bytes))
    ELSE out

\* The loop of WriteData: element i of raw_data copied, reversed if asked,
\* written.
RECURSIVE WriteValues(_, _, _, _, _, _)
WriteValues(raw_data, i, num_data_points, data_size, reverse_byte_order, out) ==
    IF i < num_data_points
    THEN LET byte_index == i * data_size
             bytes == BytesAt(raw_data, byte_index, data_size)
         IN  WriteValues(raw_data, i + 1, num_data_points, data_size,
                         reverse_byte_order,
                         out \o (IF reverse_byte_order
                                 THEN ReverseBytes(data_size, bytes)
                                 ELSE bytes))
    ELSE out

\* WriteDataEvents without data_file.close().
WriteDataEventsNoClose(hsi_data) ==
    LET data_size == GetDataSize(hsi_data.data_type)
        num_data_points == Len(hsi_data.raw_data) \div data_size
    IN  <<"open">> \o [i \in 1..num_data_points |-> "write"]

\* The file events of a WriteData that opened its file: std::ofstream
\* data_file is opened, written once per element, and closed.
WriteDataEvents(hsi_data) ==
    LET data_size == GetDataSize(hsi_data.data_type)
        num_data_points == Len(hsi_data.raw_data) \div data_size
    IN  <<"open">> \o [i \in 1..num_data_points |-> "write"] \o <<"close">>

\* WriteDataBytes without the reversal of the elements.
WriteDataBytesAsStored(data_options, machine_big_endian, hsi_data) ==
    LET data_size == GetDataSize(hsi_data.data_type)
        num_data_points == Len(hsi_data.raw_data) \div data_size
    IN  WriteValues(hsi_data.raw_data, 0, num_data_points, data_size, FALSE,
                    <<>>)

\* The bytes HSIDataReader::WriteData writes to an opened file.
WriteDataBytes(data_options, machine_big_endian, hsi_data) ==
    LET reverse_byte_order == ReverseByteOrder(data_options, machine_big_endian)
        data_size == GetDataSize(hsi_data.data_type)
        num_data_points == Len(hsi_data.raw_data) \div data_size
    IN  WriteValues(hsi_data.raw_data, 0, num_data_points, data_size,
                    reverse_byte_order, <<>>)

\* WriteDataCube with the reversal applied to raw_data itself instead of to
\* the copy bytes[].
WriteDataCubeInPlace(data_options, machine_big_endian, hsi_data) ==
    [hsi_data EXCEPT !.raw_data =
        WriteDataBytes(data_options, machine_big_endian, hsi_data)]

\* The member hsi_data_ after HSIDataReader::WriteData: the function is
\* const, every element is copied to the local bytes[] and the reversal is
\* applied to that copy, so nothing of the cube is assigned.
WriteDataCube(data_options, machine_big_endian, hsi_data) ==
    hsi_data

----------------------------------------------------------------------------
(* The integers of the sizes and indices. *)

\* The value of a two's complement integer of `bits` bits that holds x
\* modulo 2^bits.
WrapSigned(x, bits) == ((x + 2^(bits - 1)) % (2^bits)) - 2^(bits - 1)

\* Whether an int holds x.
IntFits(x) == -(2^(IntBits - 1)) <= x /\ x < 2^(IntBits - 1)

\* What an int expression of the mathematical value x can yield: x when an
\* int holds it; otherwise the signed overflow is undefined, and a build
\* yields the wrapped value or carries on with the value in a register of
\* the width of the long or size_t the expression is converted to.
SignedInt(x) ==
    IF IntFits(x) THEN {x} ELSE {WrapSigned(x, IntBits), x}

\* What a long holds after an arithmetic of the mathematical value x.
SignedLong(x) == WrapSigned(x, LongBits)

\* HSIDataReader::ReadData: const long num_data_points = num_rows * num_cols
\* * num_bands, the product of three ints, and const long num_bytes =
\* num_data_points * GetDataSize(data_type), a product of a long.
ReadDataSizes(num_rows, num_cols, num_bands, data_type) ==
    {<<SignedLong(num_data_points),
       SignedLong(SignedLong(num_data_points) * GetDataSize(data_type))>> :
        num_data_points \in
            UNION {SignedInt(rc * num_bands) :
                      rc \in SignedInt(num_rows * num_cols)}}

\* HSIDataReader::WriteData: const int num_data_points = raw_data.size() /
\* data_size, a size_t narrowed to an int.
WriteDataCount(raw_data_size, data_size) ==
    WrapSigned(raw_data_size \div data_size, IntBits)

\* HSIData::GetValue: int index from the cube's own dimensions, every
\* product and sum an int, and index * data_size, an int again, as the
\* offset into raw_data.
GetValueOffsets(hsi_data, row, col, band) ==
    LET data_size == GetDataSize(hsi_data.data_type)
        outer ==
            IF hsi_data.interleave_format = "BSQ"
            THEN UNION {SignedInt(rc * band) :
                     rc \in SignedInt(hsi_data.num_rows * hsi_data.num_cols)}
            ELSE UNION {SignedInt(cb * row) :
                     cb \in SignedInt(hsi_data.num_cols * hsi_data.num_bands)}
        middle ==
            IF hsi_data.interleave_format = "BSQ"
            THEN SignedInt(row * hsi_data.num_cols)
            ELSE IF hsi_data.interleave_format = "BIL"
            THEN SignedInt(band * hsi_data.num_cols)
            ELSE SignedInt(col * hsi_data.num_bands)
        last == IF hsi_data.interleave_format = "BIP" THEN band ELSE col
        index == UNION {SignedInt(s + last) :
                     s \in UNION {SignedInt(o + m) :
                                     o \in outer, m \in middle}}
    IN  UNION {{<<i, offset>> : offset \in SignedInt(i * data_size)} :
                  i \in index}

\* ReadDataBSQ, ReadDataBIL, ReadDataBIP: const long next_index of a
\* coordinate. The count of a band or row is a product of two ints stored in
\* a long; band_index and row_index are products of an int and that long;
\* the index inside the band or row is int arithmetic.
NextIndexOf(data_options, row, col, band) ==
    LET per == IF data_options.interleave_format = "BSQ"
               THEN {SignedLong(p) :
                       p \in SignedInt(data_options.num_data_rows
                                          * data_options.num_data_cols)}
               ELSE {SignedLong(p) :
                       p \in SignedInt(data_options.num_data_bands
                                          * data_options.num_data_cols)}
        outer == IF data_options.interleave_format = "BSQ"
                 THEN {SignedLong(band * n) : n \in per}
                 ELSE {SignedLong(row * n) : n \in per}
    IN  IF data_options.interleave_format = "BSQ"
        THEN {SignedLong(o + pixel_index) :
                o \in outer,
                pixel_index \in UNION {SignedInt(rc + col) :
                    rc \in SignedInt(row * data_options.num_data_cols)}}
        ELSE IF data_options.interleave_format = "BIL"
        THEN {SignedLong(SignedLong(o + bc) + col) :
                o \in outer,
                bc \in SignedInt(band * data_options.num_data_cols)}
        ELSE {SignedLong(SignedLong(o + cb) + band) :
                o \in outer,
                cb \in SignedInt(col * data_options.num_data_bands)}

----------------------------------------------------------------------------
(* Access. *)

\* GetValueIndex with num_cols in place of num_bands in the BIP pixel stride.
GetValueIndexBIPStride(hsi_data, row, col, band) ==
    IF hsi_data.interleave_format = "BSQ"
    THEN LET band_index == (hsi_data.num_rows * hsi_data.num_cols) * band
         IN  band_index + (row * hsi_data.num_cols) + col
    ELSE IF hsi_data.interleave_format = "BIL"
    THEN LET row_index == (hsi_data.num_cols * hsi_data.num_bands) * row
         IN  row_index + (band * hsi_data.num_cols) + col
    ELSE LET row_index == (hsi_data.num_cols * hsi_data.num_bands) * row
         IN  row_index + (col * hsi_data.num_cols) + band

\* The index GetValue computes from the cube's own dimensions.
GetValueIndex(hsi_data, row, col, band) ==
    IF hsi_data.interleave_format = "BSQ"
    THEN LET band_index == (hsi_data.num_rows * hsi_data.num_cols) * band
         IN  band_index + (row * hsi_data.num_cols) + col
    ELSE IF hsi_data.interleave_format = "BIL"
    THEN LET row_index == (hsi_data.num_cols * hsi_data.num_bands) * row
         IN  row_index + (band * hsi_data.num_cols) + col
    ELSE LET row_index == (hsi_data.num_cols * hsi_data.num_bands) * row
         IN  row_index + (col * hsi_data.num_bands) + band

\* GetValueError with > in place of >=.
GetValueErrorOnePast(hsi_data, row, col, band) ==
    IF row < 0 \/ row > hsi_data.num_rows
    THEN "Row index out of range"
    ELSE IF col < 0 \/ col > hsi_data.num_cols
    THEN "Column index out of range"
    ELSE IF band < 0 \/ band > hsi_data.num_bands
    THEN "Band index out of range"
    ELSE ""

\* The message of the bounds check GetValue fails, "" when it passes.
GetValueError(hsi_data, row, col, band) ==
    IF row < 0 \/ row >= hsi_data.num_rows
    THEN "Row index out of range"
    ELSE IF col < 0 \/ col >= hsi_data.num_cols
    THEN "Column index out of range"
    ELSE IF band < 0 \/ band >= hsi_data.num_bands
    THEN "Band index out of range"
    ELSE ""

\* HSIData::GetValue: the value returned, the message reported, and whether
\* raw_data was indexed.
GetValueResult(hsi_data, row, col, band) ==
    LET e == GetValueError(hsi_data, row, col, band)
        index == GetValueIndex(hsi_data, row, col, band)
        data_size == GetDataSize(hsi_data.data_type)
        bytes == BytesAt(hsi_data.raw_data, index * data_size, data_size)
    IN  IF e # ""
        THEN [err |-> e, value |-> HSIDataValue, indexed |-> FALSE]
        ELSE [err |-> "",
              value |-> [i \in 1..8 |-> IF i <= data_size THEN bytes[i]
                                        ELSE HSIDataValue[i]],
              indexed |-> TRUE]

\* The loop of GetSpectrum: push_back(GetValue(row, col, band)) while
\* band < num_bands.
RECURSIVE SpectrumLoop(_, _, _, _, _)
SpectrumLoop(hsi_data, row, col, band, values) ==
    IF band < hsi_data.num_bands
    THEN SpectrumLoop(hsi_data, row, col, band + 1,
                      Append(values,
                             GetValueResult(hsi_data, row, col, band).value))
    ELSE values

\* GetSpectrumResult with the loop started at band 1.
GetSpectrumFromOne(hsi_data, row, col) ==
    SpectrumLoop(hsi_data, row, col, 1, <<>>)

\* HSIData::GetSpectrum: the vector returned.
GetSpectrumResult(hsi_data, row, col) ==
    SpectrumLoop(hsi_data, row, col, 0, <<>>)

\* The last message the GetValue calls of GetSpectrum report, "" when none.
GetSpectrumError(hsi_data, row, col) ==
    IF hsi_data.num_bands > 0
    THEN GetValueError(hsi_data, row, col, hsi_data.num_bands - 1)
    ELSE ""

----------------------------------------------------------------------------
(* Loading the options. A string read from a config file is a sequence of   *)
(* characters; a config file is the sequence of its <<key, value>> lines    *)
(* (comment lines and lines without '=' are skipped by GetConfigFileValues  *)
(* and left out); header_values is a function from keys to values.          *)

DecimalDigits == <<"0", "1", "2", "3", "4", "5", "6", "7", "8", "9">>

IsDigit(c) == \E i \in 1..Len(DecimalDigits) : DecimalDigits[i] = c

DigitValue(c) == (CHOOSE i \in 1..Len(DecimalDigits) : DecimalDigits[i] = c) - 1

\* std::atoi: an optional sign, then digits up to the first other character.
RECURSIVE AtoiLoop(_, _, _)
AtoiLoop(chars, i, value) ==
    IF i <= Len(chars) /\ IsDigit(chars[i])
    THEN AtoiLoop(chars, i + 1, value * 10 + DigitValue(chars[i]))
    ELSE value

Atoi(chars) ==
    IF chars # <<>> /\ chars[1] = "-" THEN 0 - AtoiLoop(chars, 2, 0)
    ELSE IF chars # <<>> /\ chars[1] = "+" THEN AtoiLoop(chars, 2, 0)
    ELSE AtoiLoop(chars, 1, 0)

\* config_values[key] = value
Insert(config_values, key, value) ==
    [k \in (DOMAIN config_values) \cup {key} |->
        IF k = key THEN value ELSE config_values[k]]

\* The loop of GetConfigFileValues over the lines of the file.
RECURSIVE ConfigLoop(_, _, _)
ConfigLoop(lines, i, config_values) ==
    IF i <= Len(lines)
    THEN ConfigLoop(lines, i + 1,
                    Insert(config_values, lines[i][1], lines[i][2]))
    ELSE config_values

\* GetConfigFileValues: the empty map for a file that cannot be opened.
GetConfigFileValues(config_file_path, files) ==
    IF config_file_path \notin DOMAIN files
    THEN <<>>
    ELSE ConfigLoop(files[config_file_path], 1, <<>>)

\* Lines 285-299: the interleave key.
ApplyInterleave(opts, header_values) ==
    IF "interleave" \notin DOMAIN header_values
    THEN [err |-> "", options |-> opts]
    ELSE LET v == header_values["interleave"]
         IN  IF v = <<"b", "s", "q">>
             THEN [err |-> "",
                   options |-> [opts EXCEPT !.interleave_format = "BSQ"]]
             ELSE IF v = <<"b", "i", "p">>
             THEN [err |-> "",
                   options |-> [opts EXCEPT !.interleave_format = "BIP"]]
             ELSE IF v = <<"b", "i", "l">>
             THEN [err |-> "",
                   options |-> [opts EXCEPT !.interleave_format = "BIL"]]
             ELSE [err |-> "Unsupported/unknown data interleave format",
                   options |-> opts]

\* Lines 301-334: the data type key, a code or a name.
ApplyDataType(opts, header_values) ==
    IF "data type" \notin DOMAIN header_values
    THEN [err |-> "", options |-> opts]
    ELSE LET v == header_values["data type"]
             Set(data_type) ==
                 [err |-> "", options |-> [opts EXCEPT !.data_type = data_type]]
         IN  IF v = <<"1">> \/ v = <<"b", "y", "t", "e">>
             THEN Set("BYTE")
             ELSE IF v = <<"2">> \/ v = <<"i", "n", "t", "1", "6">>
             THEN Set("INT16")
             ELSE IF v = <<"3">> \/ v = <<"i", "n", "t", "3", "2">>
             THEN Set("INT32")
             ELSE IF v = <<"4">> \/ v = <<"f", "l", "o", "a", "t">>
             THEN Set("FLOAT")
             ELSE IF v = <<"5">> \/ v = <<"d", "o", "u", "b", "l", "e">>
             THEN Set("DOUBLE")
             ELSE IF v = <<"1", "2">> \/ v = <<"u", "i", "n", "t", "1", "6">>
             THEN Set("UNSIGNED_INT16")
             ELSE IF v = <<"1", "3">> \/ v = <<"u", "i", "n", "t", "3", "2">>
             THEN Set("UNSIGNED_INT32")
             ELSE IF v = <<"1", "4">> \/ v = <<"u", "i", "n", "t", "6", "4">>
             THEN Set("UNSIGNED_INT64")
             ELSE IF v = <<"1", "5">> \/ v = <<"u", "l", "o", "n", "g">>
             THEN Set("UNSIGNED_LONG")
             ELSE [err |-> "Unsupported/unknown data type", options |-> opts]

\* Lines 337-348: the byte order and header offset keys.
ApplyByteOrderAndOffset(opts, header_values) ==
    LET ordered ==
            IF "byte order" \in DOMAIN header_values
            THEN [opts EXCEPT !.big_endian =
                                  (header_values["byte order"] = <<"1">>)]
            ELSE opts
    IN  IF "header offset" \in DOMAIN header_values
        THEN [ordered EXCEPT !.header_offset =
                                 Atoi(header_values["header offset"])]
        ELSE ordered

\* ApplyDimensions with samples as the rows and lines as the columns in
\* every interleave format.
ApplyDimensionsSamplesAreRows(opts, header_values) ==
    LET with_rows ==
            IF "samples" \in DOMAIN header_values
            THEN [opts EXCEPT !.num_data_rows = Atoi(header_values["samples"])]
            ELSE opts
        with_cols ==
            IF "lines" \in DOMAIN header_values
            THEN [with_rows EXCEPT !.num_data_cols =
                                       Atoi(header_values["lines"])]
            ELSE with_rows
    IN  IF "bands" \in DOMAIN header_values
        THEN [with_cols EXCEPT !.num_data_bands = Atoi(header_values["bands"])]
        ELSE with_cols

\* Lines 350-374: the samples, lines and bands keys, rows and columns by
\* the interleave format the options have by now.
ApplyDimensions(opts, header_values) ==
    LET rows_key == IF opts.interleave_format = "BSQ"
                    THEN "samples" ELSE "lines"
        cols_key == IF opts.interleave_format = "BSQ"
                    THEN "lines" ELSE "samples"
        with_rows ==
            IF rows_key \in DOMAIN header_values
            THEN [opts EXCEPT !.num_data_rows = Atoi(header_values[rows_key])]
            ELSE opts
        with_cols ==
            IF cols_key \in DOMAIN header_values
            THEN [with_rows EXCEPT !.num_data_cols =
                                       Atoi(header_values[cols_key])]
            ELSE with_rows
    IN  IF "bands" \in DOMAIN header_values
        THEN [with_cols EXCEPT !.num_data_bands = Atoi(header_values["bands"])]
        ELSE with_cols

\* Lines 285-374: the keys of a config without a header key, in the code's
\* order; a FatalError ends the load where it is raised.
ApplyHeaderValues(opts, header_values) ==
    LET i == ApplyInterleave(opts, header_values)
        d == ApplyDataType(i.options, header_values)
    IN  IF i.err # "" THEN i
        ELSE IF d.err # "" THEN d
        ELSE [err |-> "",
              options |-> ApplyDimensions(
                              ApplyByteOrderAndOffset(d.options,
                                                      header_values),
                              header_values)]

\* Lines 272-275: the data key.
ApplyData(opts, header_values) ==
    IF "data" \in DOMAIN header_values
    THEN [opts EXCEPT !.hsi_file_path = header_values["data"]]
    ELSE opts

\* ReadHeaderBody with the keys of the config applied before its header key
\* is followed.
ReadHeaderBodyKeysFirst(opts, header_values) ==
    LET r == ApplyHeaderValues(ApplyData(opts, header_values), header_values)
    IN  IF DOMAIN header_values = {}
        THEN [err |-> "No header values available", options |-> opts,
              next |-> {}]
        ELSE IF r.err = "" /\ "header" \in DOMAIN header_values
        THEN [err |-> "", options |-> r.options,
              next |-> {header_values["header"]}]
        ELSE [err |-> r.err, options |-> r.options, next |-> {}]

\* One call of ReadHeaderFromFile on the values of its file: the FatalError
\* that ended it ("" when none), the options when it ends or calls itself,
\* and the path it calls itself with, if it does.
ReadHeaderBody(opts, header_values) ==
    IF DOMAIN header_values = {}
    THEN [err |-> "No header values available", options |-> opts,
          next |-> {}]
    ELSE IF "header" \in DOMAIN header_values
    THEN [err |-> "", options |-> ApplyData(opts, header_values),
          next |-> {header_values["header"]}]
    ELSE LET r == ApplyHeaderValues(ApplyData(opts, header_values),
                                    header_values)
         IN  [err |-> r.err, options |-> r.options, next |-> {}]

\* The number of calls made with a path.
Visits(calls, path) ==
    Cardinality({i \in 1..Len(calls) : calls[i] = path})

----------------------------------------------------------------------------
(* The inputs. *)

\* The full-cube dimensions (num_data_rows, num_data_cols, num_data_bands) a
\* reader is given; a dimension of 0 is one the options never set.
Shapes ==
    {s \in (0..MaxDim) \X (0..MaxDim) \X (0..MaxDim) :
        /\ s[1] * s[2] * s[3] <= MaxElems
        /\ (0 \in {s[1], s[2], s[3]} => s[1] + s[2] + s[3] <= 2)}

NumElems(shape) == shape[1] * shape[2] * shape[3]

\* The options readers are constructed with, and the machine's byte order.
\* Each group varies some options and leaves the others at the defaults of
\* HSIDataOptions (BSQ, FLOAT, little-endian file, no header):
\*   - every shape in every interleave format with every header offset;
\*   - every data type in both file orders on both kinds of machine, on the
\*     cubes of 1 .. MaxSmallElems elements;
\*   - a path that holds no file, on those cubes.
OptionInputs ==
    {o \in [hsi_file_path : {DataPath, MissingPath},
            interleave_format : InterleaveFormats,
            data_type : DataTypes,
            big_endian : BOOLEAN,
            machine_big_endian : BOOLEAN,
            header_offset : 0..MaxHeader,
            shape : Shapes] :
        LET small == NumElems(o.shape) \in 1..MaxSmallElems
            layout == o.interleave_format # "BSQ" \/ o.header_offset # 0
            codec == \/ o.data_type # "FLOAT"
                     \/ o.big_endian
                     \/ o.machine_big_endian
            missing == o.hsi_file_path = MissingPath
        IN  /\ codec => (small /\ ~layout /\ ~missing)
            /\ missing => (small /\ ~layout)}

\* The options of the readers whose callers only read: every shape in every
\* interleave format with every header offset up to MaxSeekHeader, and a
\* path that holds no file.
ReadInputs ==
    {o \in [hsi_file_path : {DataPath, MissingPath},
            interleave_format : InterleaveFormats,
            data_type : {"FLOAT"},
            big_endian : {FALSE},
            machine_big_endian : {FALSE},
            header_offset : 0..MaxSeekHeader,
            shape : Shapes] :
        o.hsi_file_path = MissingPath =>
            /\ NumElems(o.shape) \in 1..MaxSmallElems
            /\ o.interleave_format = "BSQ"
            /\ o.header_offset = 0}

\* The config files: the one the caller names, two more, and a path that
\* holds no file; and the data files they name.
HeaderA == <<"a", ".", "h", "d", "r">>
HeaderB == <<"b", ".", "h", "d", "r">>
HeaderC == <<"c", ".", "h", "d", "r">>
HeaderMissing == <<"n", "o", "n", "e">>
DataA == <<"a", ".", "d", "a", "t">>
DataB == <<"b", ".", "d", "a", "t">>
DataC == <<"c", ".", "d", "a", "t">>
DataPreset == <<"o", "l", "d", ".", "d", "a", "t">>

\* A key that is absent ({}) or has one of the values.
Maybe(values) == {{}} \cup {{v} : v \in values}

\* The line of a key, if it has a value.
OptLine(key, value) ==
    IF value = {} THEN <<>> ELSE << <<key, CHOOSE v \in value : TRUE>> >>

\* The lines of a config file with the given keys.
ConfigFile(c) ==
    OptLine("data", c.data) \o OptLine("header", c.header)
    \o OptLine("interleave", c.interleave)
    \o OptLine("data type", c.data_type)
    \o OptLine("byte order", c.byte_order)
    \o OptLine("header offset", c.header_offset)
    \o OptLine("samples", c.samples) \o OptLine("lines", c.lines)
    \o OptLine("bands", c.bands)

InterleaveNames == {<<"b", "s", "q">>, <<"b", "i", "l">>, <<"b", "i", "p">>}

\* Config files without a header key: every interleave name and an unknown
\* one, each dimension key absent or present, and the data type, byte order
\* and header offset as codes, as names, or unknown.
PlainConfigs ==
    {c \in [data : Maybe({DataA}),
            header : {{}},
            interleave : Maybe(InterleaveNames \cup {<<"x", "y", "z">>}),
            data_type : Maybe({<<"2">>, <<"f", "l", "o", "a", "t">>,
                               <<"9", "9">>}),
            byte_order : Maybe({<<"0">>, <<"1">>}),
            header_offset : Maybe({<<"4">>}),
            samples : Maybe({<<"2">>}),
            lines : Maybe({<<"3">>}),
            bands : Maybe({<<"1", "0">>})] :
        \/ c.data_type = {} /\ c.byte_order = {} /\ c.header_offset = {}
        \/ /\ c.data_type = {<<"2">>} /\ c.byte_order = {<<"1">>}
           /\ c.header_offset = {<<"4">>}
        \/ /\ c.data_type = {<<"f", "l", "o", "a", "t">>}
           /\ c.byte_order = {<<"0">>} /\ c.header_offset = {}
        \/ /\ c.data_type = {<<"9", "9">>} /\ c.byte_order = {}
           /\ c.header_offset = {}}

\* Config files with a header key, and keys of their own or none.
PointingConfigs ==
    {c \in [data : Maybe({DataA}),
            header : {{HeaderA}, {HeaderB}, {HeaderMissing}},
            interleave : Maybe({<<"b", "i", "l">>}),
            data_type : Maybe({<<"2">>}),
            byte_order : Maybe({<<"1">>}),
            header_offset : Maybe({<<"4">>}),
            samples : Maybe({<<"7">>}),
            lines : Maybe({<<"8">>}),
            bands : Maybe({<<"9">>})] :
        /\ (c.data_type = {}) = (c.byte_order = {})
        /\ (c.data_type = {}) = (c.header_offset = {})
        /\ (c.samples = {}) = (c.lines = {})
        /\ (c.samples = {}) = (c.bands = {})}

\* The config files a pointing config refers to: with or without a header
\* key back to a file already read.
ReferredConfigs ==
    [data : Maybe({DataB}),
     header : Maybe({HeaderA, HeaderB}),
     interleave : Maybe(InterleaveNames),
     data_type : {{}},
     byte_order : {{}},
     header_offset : {{}},
     samples : Maybe({<<"2">>}),
     lines : Maybe({<<"3">>}),
     bands : Maybe({<<"1", "0">>})]

\* The config files in the middle of a chain of three.
ChainedConfigs ==
    [data : Maybe({DataB}),
     header : {{HeaderC}},
     interleave : Maybe({<<"b", "i", "p">>}),
     data_type : {{}},
     byte_order : {{}},
     header_offset : {{}},
     samples : Maybe({<<"2">>}),
     lines : {{}},
     bands : {{}}]

\* The config files at the end of a chain of three.
InnermostConfigs ==
    [data : Maybe({DataC}),
     header : {{}},
     interleave : Maybe({<<"b", "s", "q">>}),
     data_type : {{}},
     byte_order : {{}},
     header_offset : {{}},
     samples : {{}},
     lines : {{}},
     bands : Maybe({<<"1", "0">>})]

\* The files of a load: HeaderA alone, or HeaderA pointing to HeaderB, to
\* itself or to no file, or HeaderA pointing to HeaderB and HeaderB to
\* HeaderC.
ConfigInputs ==
    {[p \in {HeaderA} |-> ConfigFile(a)] : a \in PlainConfigs}
    \cup {[p \in {HeaderA} |-> ConfigFile(a)] :
             a \in {c \in PointingConfigs : c.header # {HeaderB}}}
    \cup {[p \in {HeaderA, HeaderB} |->
               IF p = HeaderA THEN ConfigFile(a) ELSE ConfigFile(b)] :
             a \in {c \in PointingConfigs : c.header = {HeaderB}},
             b \in ReferredConfigs}
    \cup {[p \in {HeaderA, HeaderB, HeaderC} |->
               IF p = HeaderA THEN ConfigFile(a)
               ELSE IF p = HeaderB THEN ConfigFile(b) ELSE ConfigFile(c)] :
             a \in {c \in PointingConfigs : c.header = {HeaderB}},
             b \in ChainedConfigs, c \in InnermostConfigs}

\* The options a load starts from: the defaults, or options the caller set
\* before, in each interleave format.
OptionsBefore ==
    {[DefaultOptions EXCEPT !.hsi_file_path = <<>>]}
    \cup {[DefaultOptions EXCEPT !.hsi_file_path = DataPreset,
                                 !.interleave_format = f,
                                 !.num_data_rows = 5,
                                 !.num_data_cols = 6,
                                 !.num_data_bands = 7] :
             f \in InterleaveFormats}

\* The data file of a cube of that shape: header_offset elements of padding
\* and the elements of the cube, byte value i at byte position i.
DataFile(data_type, header_offset, shape) ==
    [exists |-> TRUE,
     bytes |-> [i \in 1..((header_offset + NumElems(shape))
                          * GetDataSize(data_type)) |-> i]]

\* The invalid (start, end) pairs tried on an axis of full dimension d:
\* start < 0, end > d, a zero span, a negative span.
AxisInvalid(d) == {<<-1, d>>, <<0, d + 1>>, <<0, 0>>, <<1, 0>>}

AxisValid(d) ==
    {p \in (0..d) \X (0..d) : p[1] < p[2]}

MakeRange(r, c, b) ==
    [start_row |-> r[1], end_row |-> r[2], start_col |-> c[1],
     end_col |-> c[2], start_band |-> b[1], end_band |-> b[2]]

\* The ranges a reader is asked for: every valid range; every range invalid
\* on one axis and whole on the others; and every mix over the three axes of
\* whole, start < 0 and zero span.
Ranges(data_options) ==
    LET dr == data_options.num_data_rows
        dc == data_options.num_data_cols
        db == data_options.num_data_bands
        Mix(d) == {<<0, d>>, <<-1, d>>, <<0, 0>>}
    IN  {MakeRange(r, c, b) :
            r \in AxisValid(dr), c \in AxisValid(dc), b \in AxisValid(db)}
        \cup {MakeRange(r, <<0, dc>>, <<0, db>>) : r \in AxisInvalid(dr)}
        \cup {MakeRange(<<0, dr>>, c, <<0, db>>) : c \in AxisInvalid(dc)}
        \cup {MakeRange(<<0, dr>>, <<0, dc>>, b) : b \in AxisInvalid(db)}
        \cup {MakeRange(r, c, b) : r \in Mix(dr), c \in Mix(dc), b \in Mix(db)}

\* The order of the calls of a caller, after main of test_reader.cpp: reads,
\* then either an element access, or a spectrum and the same spectrum again,
\* or writes and the re-read of the saved file.
CallerMay(call) ==
    /\ status = "running"
    /\ CASE call = "ReadData" -> op \in {"none", "ReadData"}
         [] call = "WriteData" -> op \in {"none", "ReadData", "WriteData"}
         [] call = "ReRead" -> op = "WriteData"
         [] call = "GetValue" -> op \in {"none", "ReadData"}
         [] call = "GetSpectrum" -> op \in {"none", "ReadData", "GetSpectrum"}

----------------------------------------------------------------------------
(* The state machine. *)

\* HSIDataReader reader(data_options): the options copied, the machine's
\* byte order probed, hsi_data_ default-constructed.
Constructed(o) ==
    /\ data_options_ =
          [hsi_file_path |-> o.hsi_file_path,
           interleave_format |-> o.interleave_format,
           data_type |-> o.data_type,
           big_endian |-> o.big_endian,
           header_offset |-> o.header_offset,
           num_data_rows |-> o.shape[1],
           num_data_cols |-> o.shape[2],
           num_data_bands |-> o.shape[3]]
    /\ machine_big_endian_ = o.machine_big_endian
    /\ fs = [p \in Paths |->
               IF p = DataPath
               THEN DataFile(o.data_type, o.header_offset, o.shape)
               ELSE NoFile]

\* The caller has made no call yet.
NoCallYet ==
    /\ hsi_data_ = DefaultHSIData
    /\ hsi_data_2 = DefaultHSIData
    /\ status = "running"
    /\ err = ""
    /\ op = "none"
    /\ data_range = DefaultRange
    /\ read_offsets = <<>>
    /\ replaced = FALSE
    /\ ret = NoReturn
    /\ spectrum = NoSpectrum
    /\ io = <<>>
    /\ ReverseIdle
    /\ HeaderIdle
    /\ ArithIdle

Init ==
    /\ \E o \in OptionInputs : Constructed(o)
    /\ NoCallYet

\* reader.ReadData(range)
ReadData(range) ==
    /\ CallerMay("ReadData")
    /\ LET r == ReadDataResult(data_options_, machine_big_endian_, hsi_data_,
                               range, fs)
       IN  /\ hsi_data_' = r.hsi_data
           /\ err' = r.err
           /\ status' = IF r.err = "" THEN "running" ELSE "exited"
           /\ read_offsets' = r.offsets
           /\ io' = r.io
    /\ op' = "ReadData"
    /\ data_range' = range
    /\ replaced' = (hsi_data_.raw_data # <<>>)
    /\ UNCHANGED <<data_options_, machine_big_endian_, hsi_data_2, fs, ret,
                   spectrum, reverse_vars, header_vars,
                   arith_vars>>

\* reader.WriteData(save_file_path)
WriteData(save_file_path) ==
    /\ CallerMay("WriteData")
    /\ IF save_file_path = UnwritablePath
       THEN /\ err' = "could not be opened for writing"
            /\ status' = "exited"
            /\ fs' = fs
            /\ io' = <<"open failed">>
            /\ hsi_data_' = hsi_data_
       ELSE /\ fs' = [fs EXCEPT ![save_file_path] =
                        [exists |-> TRUE,
                         bytes |-> WriteDataBytes(data_options_,
                                                  machine_big_endian_,
                                                  hsi_data_)]]
            /\ io' = WriteDataEvents(hsi_data_)
            /\ hsi_data_' = WriteDataCube(data_options_, machine_big_endian_,
                                          hsi_data_)
            /\ UNCHANGED <<err, status>>
    /\ op' = "WriteData"
    /\ UNCHANGED <<data_options_, machine_big_endian_, hsi_data_2,
                   data_range, read_offsets, replaced, ret, spectrum,
                   reverse_vars, header_vars,
                   arith_vars>>

\* The options main gives reader_2: those of the first reader, the saved
\* file, no header, the dimensions of the cube that was written.
DataOptions2(data_options, hsi_data) ==
    [data_options EXCEPT !.hsi_file_path = SavePath,
                         !.header_offset = 0,
                         !.num_data_rows = hsi_data.num_rows,
                         !.num_data_cols = hsi_data.num_cols,
                         !.num_data_bands = hsi_data.num_bands]

\* The range main gives reader_2.ReadData: the whole saved cube.
DataRange2(hsi_data) ==
    [start_row |-> 0, end_row |-> hsi_data.num_rows,
     start_col |-> 0, end_col |-> hsi_data.num_cols,
     start_band |-> 0, end_band |-> hsi_data.num_bands]

\* main of test_reader.cpp after the write: reader_2 is constructed on the
\* saved file and reads all of it.
ReRead ==
    /\ CallerMay("ReRead")
    /\ fs[SavePath].exists
    /\ LET r == ReadDataResult(DataOptions2(data_options_, hsi_data_),
                               machine_big_endian_, DefaultHSIData,
                               DataRange2(hsi_data_), fs)
       IN  /\ hsi_data_2' = r.hsi_data
           /\ err' = r.err
           /\ status' = IF r.err = "" THEN "running" ELSE "exited"
           /\ io' = r.io
    /\ op' = "ReRead"
    /\ UNCHANGED <<data_options_, machine_big_endian_, hsi_data_, fs,
                   data_range, read_offsets, replaced, ret, spectrum,
                   reverse_vars, header_vars,
                   arith_vars>>

\* reader.GetData().GetValue(row, col, band)
GetValue(row, col, band) ==
    /\ CallerMay("GetValue")
    /\ LET r == GetValueResult(hsi_data_, row, col, band)
       IN  /\ ret' = [row |-> row, col |-> col, band |-> band,
                      value |-> r.value, indexed |-> r.indexed]
           /\ err' = r.err
    /\ op' = "GetValue"
    /\ UNCHANGED <<data_options_, machine_big_endian_, hsi_data_, hsi_data_2,
                   fs, status, data_range, read_offsets, replaced, spectrum, io,
                   reverse_vars, header_vars,
                   arith_vars>>

\* reader.GetData().GetSpectrum(row, col), once or a second time with the
\* same row and col.
GetSpectrum(row, col) ==
    /\ CallerMay("GetSpectrum")
    /\ op = "GetSpectrum" =>
          (spectrum.calls = 1 /\ row = spectrum.row /\ col = spectrum.col)
    /\ spectrum' = [row |-> row, col |-> col,
                    values |-> GetSpectrumResult(hsi_data_, row, col),
                    calls |-> IF op = "GetSpectrum" THEN 2 ELSE 1]
    /\ err' = GetSpectrumError(hsi_data_, row, col)
    /\ op' = "GetSpectrum"
    /\ UNCHANGED <<data_options_, machine_big_endian_, hsi_data_, hsi_data_2,
                   fs, status, data_range, read_offsets, replaced, ret, io,
                   reverse_vars, header_vars,
                   arith_vars>>

Next ==
    \/ \E range \in Ranges(data_options_) : ReadData(range)
    \/ \E save_file_path \in {SavePath, UnwritablePath} :
          WriteData(save_file_path)
    \/ ReRead
    \/ \E row \in -1..hsi_data_.num_rows, col \in -1..hsi_data_.num_cols,
          band \in -1..hsi_data_.num_bands : GetValue(row, col, band)

Spec == Init /\ [][Next]_vars

\* A caller that reads and asks for the spectra of pixels (test_reader.cpp,
\* line 100).
NextSpectrum ==
    \/ \E range \in Ranges(data_options_) : ReadData(range)
    \/ \E row \in -1..hsi_data_.num_rows, col \in -1..hsi_data_.num_cols :
          GetSpectrum(row, col)

SpecSpectrum == Init /\ [][NextSpectrum]_vars

\* A caller that only reads (test_visualizations.cpp), with header offsets
\* up to MaxSeekHeader.
InitRead ==
    /\ \E o \in ReadInputs : Constructed(o)
    /\ NoCallYet

NextRead == \E range \in Ranges(data_options_) : ReadData(range)

SpecRead == InitRead /\ [][NextRead]_vars

----------------------------------------------------------------------------
(* Loading the options from config files: data_options.ReadHeaderFromFile   *)
(* (config_path) of visualize.cpp, one step per call of ReadHeaderFromFile. *)

InitHeader ==
    /\ configs \in ConfigInputs
    /\ options \in OptionsBefore
    /\ options_in = options
    /\ header_call = [pending |-> TRUE, header_file_path |-> HeaderA]
    /\ chain = <<>>
    /\ status = "running"
    /\ err = ""
    /\ ReaderIdle
    /\ ReverseIdle
    /\ ArithIdle

\* HSIDataOptions::ReadHeaderFromFile(header_file_path): the call returns,
\* ends the process with a FatalError, or calls itself with the path of the
\* header key.
ReadHeaderFromFile ==
    /\ status = "running"
    /\ header_call.pending
    /\ Visits(chain, header_call.header_file_path) < MaxVisits
    /\ LET r == ReadHeaderBody(options,
                               GetConfigFileValues(
                                   header_call.header_file_path, configs))
       IN  /\ options' = r.options
           /\ err' = r.err
           /\ status' = IF r.err = "" THEN "running" ELSE "exited"
           /\ header_call' =
                 IF r.next = {} THEN NoCall
                 ELSE [pending |-> TRUE,
                       header_file_path |-> CHOOSE path \in r.next : TRUE]
    /\ chain' = Append(chain, header_call.header_file_path)
    /\ UNCHANGED <<options_in, configs, reader_vars, reverse_vars, arith_vars>>

NextHeader == ReadHeaderFromFile

SpecHeader == InitHeader /\ [][NextHeader]_vars

----------------------------------------------------------------------------
(* ReverseBytes on its own: a buffer of one element of some data type, and  *)
(* calls of ReverseBytes on it.                                             *)

\* The sizes GetDataSize returns.
DataSizes == {GetDataSize(data_type) : data_type \in DataTypes}

InitReverse ==
    /\ \E data_size \in DataSizes :
          \E b \in [1..data_size -> 0..MaxByte] :
              /\ byte_buffer = b
              /\ byte_buffer_in = b
    /\ reversals = 0
    /\ status = "running"
    /\ err = ""
    /\ ReaderIdle
    /\ HeaderIdle
    /\ ArithIdle

\* ReverseBytes(data_size, bytes) on the buffer, data_size its size.
ReverseBytesCall ==
    /\ reversals < MaxReversals
    /\ byte_buffer' = ReverseBytes(Len(byte_buffer), byte_buffer)
    /\ reversals' = reversals + 1
    /\ UNCHANGED <<byte_buffer_in, reader_vars, status, err, header_vars,
                   arith_vars>>

NextReverse == ReverseBytesCall

SpecReverse == InitReverse /\ [][NextReverse]_vars

----------------------------------------------------------------------------
(* What the claims are stated with. *)

\* The linear index of (row, col, band) in a cube of rows x cols x bands in
\* the documented layout of a format.
LinearIndex(format, rows, cols, bands, row, col, band) ==
    CASE format = "BSQ" -> band * (rows * cols) + row * cols + col
      [] format = "BIL" -> row * (bands * cols) + band * cols + col
      [] format = "BIP" -> row * (bands * cols) + col * bands + band

\* The index in the full cube on disk.
FullIndex(row, col, band) ==
    LinearIndex(data_options_.interleave_format, data_options_.num_data_rows,
                data_options_.num_data_cols, data_options_.num_data_bands,
                row, col, band)

\* The bytes of a buffer in the opposite order.
Reversed(bytes) == [i \in 1..Len(bytes) |-> bytes[Len(bytes) + 1 - i]]

\* On-disk bytes as the host holds them, and back.
HostOrder(bytes) ==
    IF data_options_.big_endian # machine_big_endian_
    THEN Reversed(bytes) ELSE bytes

Width == GetDataSize(data_options_.data_type)

\* The data file's bytes at a byte offset, one element wide.
OnDisk(offset) ==
    [i \in 1..Width |-> fs[data_options_.hsi_file_path].bytes[offset + i]]

\* The on-disk bytes of the element at a full-cube coordinate.
FileElement(row, col, band) ==
    OnDisk((data_options_.header_offset + FullIndex(row, col, band)) * Width)

\* A scalar of eight bytes holding an element in its first bytes.
Scalar(bytes) == [i \in 1..8 |-> IF i <= Len(bytes) THEN bytes[i] ELSE 0]

\* Element k (from 0) of a buffer of elements `size` bytes wide.
Element(buffer, k, size) == [i \in 1..size |-> buffer[k * size + i]]

NumDataPoints(hsi_data) ==
    hsi_data.num_rows * hsi_data.num_cols * hsi_data.num_bands

\* The last call was a ReadData that returned.
ReadDone == op = "ReadData" /\ status = "running"

\* The (row, col, band) of the k-th element (from 0) of the requested range
\* in the traversal order of the options' format.
TraversalCoord(range, k) ==
    CASE data_options_.interleave_format = "BSQ" -> LoopBSQ(range, k)
      [] data_options_.interleave_format = "BIL" -> LoopBIL(range, k)
      [] data_options_.interleave_format = "BIP" -> LoopBIP(range, k)

----------------------------------------------------------------------------
(* The claims. *)

\* C1: after a successful ReadData(range) with header_offset = 0, GetValue(r,
\* c, b) on an in-range coordinate of the sub-cube returns the element the
\* file stores at the full-cube coordinate (start_row + r, start_col + c,
\* start_band + b), in host byte order.
C1_GetValueReturnsFileElement ==
    (op = "GetValue" /\ err = "" /\ data_options_.header_offset = 0)
        => ret.value = Scalar(HostOrder(FileElement(
                            data_range.start_row + ret.row,
                            data_range.start_col + ret.col,
                            data_range.start_band + ret.band)))

\* C4: every element ReadData appends is read from byte offset
\* (header_offset + idx) * width, idx the format's index of the element's
\* coordinate in the full cube.
C4_ReadsSkipHeader ==
    ReadDone =>
        \A k \in 1..Len(read_offsets) :
            LET at == TraversalCoord(data_range, k - 1)
            IN  read_offsets[k] =
                    (data_options_.header_offset
                     + FullIndex(at.row, at.col, at.band)) * Width

\* The buffer of the reference reader of C5: it seeks to index * width
\* before every read, the first included.
AlwaysSeekBuffer(k) ==
    LET at == TraversalCoord(data_range, k)
    IN  HostOrder(OnDisk(FullIndex(at.row, at.col, at.band) * Width))

\* C5: the buffer ReadData produces, seeking only when the next index is not
\* contiguous, is byte for byte the buffer of a reader that seeks to
\* index * width before every read.
C5_SeekSkipKeepsBuffer ==
    ReadDone =>
        /\ Len(hsi_data_.raw_data) = NumIterations(data_range) * Width
        /\ \A k \in 0..(NumIterations(data_range) - 1) :
              Element(hsi_data_.raw_data, k, Width) = AlwaysSeekBuffer(k)

\* C2: a cube that was read, written to a file and read back whole by a
\* second reader with the same format, type and byte order, the cube's own
\* dimensions and no header has as many data points and the same raw bytes.
C2_RoundTrip ==
    (op = "ReRead" /\ status = "running")
        => /\ NumDataPoints(hsi_data_2) = NumDataPoints(hsi_data_)
           /\ hsi_data_2.raw_data = hsi_data_.raw_data

\* A round trip of several elements whose bytes are reversed on the way in
\* and on the way out.
C2_Witness ==
    /\ op = "ReRead" /\ status = "running"
    /\ data_options_.big_endian # machine_big_endian_
    /\ Width > 1
    /\ NumDataPoints(hsi_data_) > 1
    /\ Len(hsi_data_2.raw_data) = NumDataPoints(hsi_data_) * Width

\* A range is valid when 0 <= start < end <= full dimension on every axis.
ValidRange(range) ==
    /\ 0 <= range.start_row /\ range.start_row < range.end_row
    /\ range.end_row <= data_options_.num_data_rows
    /\ 0 <= range.start_col /\ range.start_col < range.end_col
    /\ range.end_col <= data_options_.num_data_cols
    /\ 0 <= range.start_band /\ range.start_band < range.end_band
    /\ range.end_band <= data_options_.num_data_bands

\* Some axis of the range starts below 0 or ends past the full dimension.
OutOfBounds(range) ==
    \/ range.start_row < 0 \/ range.end_row > data_options_.num_data_rows
    \/ range.start_col < 0 \/ range.end_col > data_options_.num_data_cols
    \/ range.start_band < 0 \/ range.end_band > data_options_.num_data_bands

\* C3: ReadData accepts a range exactly when it is valid; a range out of
\* bounds is rejected with a range-bounds error, a range in bounds with a
\* span <= 0 with a non-positive-span error; a rejection ends the call; no
\* range is accepted while a full dimension is <= 0.
C3_RangeAcceptedIffValid ==
    op = "ReadData" =>
        LET rejected == err \in BoundsErrors \cup SpanErrors
        IN  /\ ~rejected <=> ValidRange(data_range)
            /\ OutOfBounds(data_range) => err \in BoundsErrors
            /\ (~OutOfBounds(data_range) /\ ~ValidRange(data_range))
                  => err \in SpanErrors
            /\ rejected => status = "exited"
            /\ ~rejected => /\ data_options_.num_data_rows > 0
                            /\ data_options_.num_data_cols > 0
                            /\ data_options_.num_data_bands > 0

\* A zero span inside the cube (start_row = end_row) was rejected.
C3_Witness ==
    /\ op = "ReadData"
    /\ data_range.start_row = data_range.end_row
    /\ data_options_.num_data_rows > 0
    /\ ~OutOfBounds(data_range)
    /\ err \in SpanErrors
    /\ status = "exited"

\* C6: GetValue with a coordinate outside [0, dim) on its axis reports an
\* error, returns the scalar of eight zero bytes without indexing raw_data,
\* leaves the cube as it was, and returns to a caller that runs on.
C6_GetValueOutOfRange ==
    [][(/\ op' = "GetValue"
        /\ \/ ret'.row < 0 \/ ret'.row >= hsi_data_.num_rows
           \/ ret'.col < 0 \/ ret'.col >= hsi_data_.num_cols
           \/ ret'.band < 0 \/ ret'.band >= hsi_data_.num_bands)
       => /\ ret'.value = [i \in 1..8 |-> 0]
          /\ ~ret'.indexed
          /\ err' # ""
          /\ hsi_data_' = hsi_data_
          /\ status' = "running"]_vars

\* GetValue was called with row = num_rows, one past the end, on a cube
\* that holds data.
C6_Witness ==
    /\ op = "GetValue"
    /\ hsi_data_.raw_data # <<>>
    /\ ret.row = hsi_data_.num_rows
    /\ ret.col \in 0..(hsi_data_.num_cols - 1)
    /\ ret.band \in 0..(hsi_data_.num_bands - 1)
    /\ err = "Row index out of range"

\* C7: after a ReadData that returned, also one that followed other reads,
\* raw_data holds num_rows * num_cols * num_bands elements, the dimensions
\* are end - start of the range just read, the format and the type are the
\* options', and the buffer is the one a reader that never read before
\* gets: no byte of an earlier read remains.
C7_CubeSize ==
    ReadDone =>
        /\ Len(hsi_data_.raw_data) =
              hsi_data_.num_rows * hsi_data_.num_cols * hsi_data_.num_bands
              * GetDataSize(hsi_data_.data_type)
        /\ hsi_data_.num_rows = data_range.end_row - data_range.start_row
        /\ hsi_data_.num_cols = data_range.end_col - data_range.start_col
        /\ hsi_data_.num_bands = data_range.end_band - data_range.start_band
        /\ hsi_data_.interleave_format = data_options_.interleave_format
        /\ hsi_data_.data_type = data_options_.data_type
        /\ Len(read_offsets) = NumDataPoints(hsi_data_)
        /\ \A k \in 0..(NumDataPoints(hsi_data_) - 1) :
              Element(hsi_data_.raw_data, k, Width) =
                  HostOrder(OnDisk(read_offsets[k + 1]))

\* A ReadData that returned on a reader that held the data of an earlier
\* read, of a smaller range than the whole cube.
C7_Witness ==
    /\ ReadDone
    /\ replaced
    /\ NumDataPoints(hsi_data_) > 1
    /\ NumDataPoints(hsi_data_) <
          data_options_.num_data_rows * data_options_.num_data_cols
          * data_options_.num_data_bands

\* C8: every element ReadData stores is the on-disk element, at the offset
\* it was read from, with its bytes reversed exactly when the options'
\* big_endian differs from the machine's byte order.
C8_ByteOrderOnRead ==
    ReadDone =>
        \A k \in 1..Len(read_offsets) :
            LET stored == Element(hsi_data_.raw_data, k - 1, Width)
                disk == OnDisk(read_offsets[k])
            IN  IF data_options_.big_endian # machine_big_endian_
                THEN stored = Reversed(disk)
                ELSE stored = disk

\* A read of elements wider than a byte from a big-endian file on a
\* little-endian machine.
C8_Witness ==
    /\ ReadDone
    /\ data_options_.big_endian /\ ~machine_big_endian_
    /\ Width > 1
    /\ Len(read_offsets) > 1

\* C9: WriteData writes a file of raw_data.size() bytes whose k-th element
\* is the k-th element of the buffer with the reversal applied again; for a
\* cube ReadData filled, it is the on-disk bytes of the k-th element read.
C9_WriteRestoresDiskBytes ==
    (op = "WriteData" /\ status = "running") =>
        LET out == fs[SavePath].bytes
            size == GetDataSize(hsi_data_.data_type)
            n == Len(hsi_data_.raw_data) \div size
        IN  /\ fs[SavePath].exists
            /\ Len(out) = Len(hsi_data_.raw_data)
            /\ \A k \in 0..(n - 1) :
                  /\ Element(out, k, size) =
                        (IF data_options_.big_endian # machine_big_endian_
                         THEN Reversed(Element(hsi_data_.raw_data, k, size))
                         ELSE Element(hsi_data_.raw_data, k, size))
                  /\ Element(out, k, size) = OnDisk(read_offsets[k + 1])

\* A write of several elements wider than a byte whose bytes were reversed
\* by the read.
C9_Witness ==
    /\ op = "WriteData" /\ status = "running"
    /\ data_options_.big_endian # machine_big_endian_
    /\ Width > 1
    /\ Len(fs[SavePath].bytes) > Width

\* The in-range coordinates of a cube.
Coordinates(hsi_data) ==
    [row : 0..(hsi_data.num_rows - 1), col : 0..(hsi_data.num_cols - 1),
     band : 0..(hsi_data.num_bands - 1)]

\* The (row, col, band) of the k-th coordinate (from 0) of a cube in the
\* nested order of its format: BSQ band, row, col; BIL row, band, col; BIP
\* row, col, band.
NestedOrder(hsi_data, k) ==
    LET nr == hsi_data.num_rows
        nc == hsi_data.num_cols
        nb == hsi_data.num_bands
    IN  CASE hsi_data.interleave_format = "BSQ" ->
                [band |-> k \div (nr * nc), row |-> (k \div nc) % nr,
                 col |-> k % nc]
          [] hsi_data.interleave_format = "BIL" ->
                [row |-> k \div (nb * nc), band |-> (k \div nc) % nb,
                 col |-> k % nc]
          [] hsi_data.interleave_format = "BIP" ->
                [row |-> k \div (nc * nb), col |-> (k \div nb) % nc,
                 band |-> k % nb]

\* C10: for the dimensions and the format of a cube, the index GetValue
\* computes is the format's formula, it maps the in-range coordinates one to
\* one onto 0 .. rows*cols*bands - 1, and the coordinates in the format's
\* nested order get the indices 0, 1, 2, ... in that order.
C10_IndexBijection ==
    ReadDone =>
        LET n == NumDataPoints(hsi_data_)
            Index(at) == GetValueIndex(hsi_data_, at.row, at.col, at.band)
        IN  /\ \A at \in Coordinates(hsi_data_) :
                  Index(at) = LinearIndex(hsi_data_.interleave_format,
                                          hsi_data_.num_rows,
                                          hsi_data_.num_cols,
                                          hsi_data_.num_bands,
                                          at.row, at.col, at.band)
            /\ {Index(at) : at \in Coordinates(hsi_data_)} = 0..(n - 1)
            /\ \A a1, a2 \in Coordinates(hsi_data_) :
                  Index(a1) = Index(a2) => a1 = a2
            /\ \A k \in 0..(n - 1) :
                  /\ NestedOrder(hsi_data_, k) \in Coordinates(hsi_data_)
                  /\ Index(NestedOrder(hsi_data_, k)) = k

\* A BSQ cube of 2 x 2 x 2, the layout of the header's comment.
C10_Witness ==
    /\ ReadDone
    /\ hsi_data_.interleave_format = "BSQ"
    /\ hsi_data_.num_rows = 2 /\ hsi_data_.num_cols = 2
    /\ hsi_data_.num_bands = 2
    /\ GetValueIndex(hsi_data_, 1, 0, 1) = 6

\* C11: one ReverseBytes on a buffer of w bytes, w the size of a data type,
\* moves byte i to position w - 1 - i for every i and is the identity for
\* w = 1; two ReverseBytes restore the buffer.
C11_ReverseBytesSelfInverse ==
    LET w == Len(byte_buffer_in)
    IN  /\ Len(byte_buffer) = w
        /\ reversals = 1 =>
              /\ \A i \in 0..(w - 1) :
                    byte_buffer[(w - 1 - i) + 1] = byte_buffer_in[i + 1]
              /\ w = 1 => byte_buffer = byte_buffer_in
        /\ reversals = 2 => byte_buffer = byte_buffer_in

\* A buffer of eight bytes that is not its own reverse, reversed twice.
C11_Witness ==
    /\ reversals = 2
    /\ Len(byte_buffer_in) = 8
    /\ byte_buffer_in # Reversed(byte_buffer_in)
    /\ byte_buffer = byte_buffer_in

\* C12: GetSpectrum(row, col) returns num_bands values, the b-th the value
\* GetValue(row, col, b) returns, for b = 0 .. num_bands - 1 in that order;
\* for a row or col out of range every value is the zero scalar; the cube is
\* left as it was; and a second call with the same row and col returns the
\* same sequence.
C12_SpectrumIsGetValuePerBand ==
    [][op' = "GetSpectrum" =>
          LET row == spectrum'.row
              col == spectrum'.col
              values == spectrum'.values
          IN  /\ Len(values) = hsi_data_.num_bands
              /\ \A b \in 0..(hsi_data_.num_bands - 1) :
                    values[b + 1] =
                        GetValueResult(hsi_data_, row, col, b).value
              /\ (\/ row < 0 \/ row >= hsi_data_.num_rows
                  \/ col < 0 \/ col >= hsi_data_.num_cols)
                    => \A b \in 1..Len(values) : values[b] = [i \in 1..8 |-> 0]
              /\ hsi_data_' = hsi_data_
              /\ status' = "running"
              /\ op = "GetSpectrum" => values = spectrum.values]_vars

\* The spectrum of an in-range pixel of a cube of at least two bands whose
\* pixels differ, asked for a second time.
C12_Witness ==
    /\ op = "GetSpectrum"
    /\ spectrum.calls = 2
    /\ hsi_data_.num_bands >= 2
    /\ spectrum.row \in 0..(hsi_data_.num_rows - 1)
    /\ spectrum.col \in 0..(hsi_data_.num_cols - 1)
    /\ Len(spectrum.values) = hsi_data_.num_bands
    /\ spectrum.values[1] # spectrum.values[2]

\* C13: an invalid range and a file that cannot be opened make ReadData and
\* WriteData report a failure to a caller that runs on and can make further
\* calls; the process is never terminated.
C13_FailuresReturnToCaller ==
    (op \in {"ReadData", "WriteData", "ReRead"} /\ err # "")
        => status = "running"

\* C14: a ReadData whose range fails validation on some axis fails with a
\* range error before the data file is opened: the call makes no file event,
\* reads no byte, and leaves raw_data as it was, neither cleared nor grown.
C14_RangeErrorsPrecedeIO ==
    [][(op' = "ReadData" /\ ~ValidRange(data_range'))
          => /\ err' \in BoundsErrors \cup SpanErrors
             /\ io' = <<>>
             /\ read_offsets' = <<>>
             /\ hsi_data_'.raw_data = hsi_data_.raw_data]_vars

\* A zero-span range was rejected by a reader that held the data of an
\* earlier read.
C14_Witness ==
    /\ op = "ReadData"
    /\ replaced
    /\ err \in SpanErrors
    /\ hsi_data_.raw_data # <<>>
    /\ io = <<>>

\* C15: a load of the options visits each config path at most once, also
\* when the header keys form a cycle, and so ends with a result or an error.
C15_LoadVisitsEachPathOnce ==
    \A i, j \in 1..Len(chain) : chain[i] = chain[j] => i = j

\* The absolute element index of the k-th coordinate (from 0) of the
\* traversal of the last ReadData: the header and the format's index in
\* the full cube.
AbsoluteIndex(k) ==
    LET at == TraversalCoord(data_range, k)
    IN  data_options_.header_offset + FullIndex(at.row, at.col, at.band)

\* Two coordinates are neighbours on the innermost axis of the layout: col
\* for BSQ and BIL, band for BIP.
InnermostNeighbours(a1, a2) ==
    IF data_options_.interleave_format = "BIP"
    THEN a1.row = a2.row /\ a1.col = a2.col /\ a2.band = a1.band + 1
    ELSE a1.row = a2.row /\ a1.band = a2.band /\ a2.col = a1.col + 1

\* C19: in the traversal of a ReadData of a valid range, the absolute
\* element indices visited are strictly increasing; the file position never
\* moves backwards: every element is read at or after the position the
\* read before it left; and the indices of two coordinates that are
\* neighbours on the innermost axis differ by exactly 1.
C19_TraversalNeverSeeksBack ==
    ReadDone =>
        \A k \in 1..(NumIterations(data_range) - 1) :
            /\ AbsoluteIndex(k) > AbsoluteIndex(k - 1)
            /\ read_offsets[k + 1] >= read_offsets[k] + Width
            /\ InnermostNeighbours(TraversalCoord(data_range, k - 1),
                                   TraversalCoord(data_range, k))
                  => AbsoluteIndex(k) = AbsoluteIndex(k - 1) + 1

\* The coordinates a caller may hand to GetValue on a cube, one outside the
\* cube on each side included.
CallerCoordinates(hsi_data) ==
    [row : -1..hsi_data.num_rows, col : -1..hsi_data.num_cols,
     band : -1..hsi_data.num_bands]

\* C20: a WriteData leaves the reader as it was: the cube (dimensions,
\* format, type and raw_data) and the options are the same after the call
\* as before it, GetValue returns the same for every coordinate, and a
\* WriteData that follows a WriteData leaves the same bytes in the file.
C20_WriteDataLeavesReaderUnchanged ==
    [][op' = "WriteData" =>
          /\ hsi_data_' = hsi_data_
          /\ data_options_' = data_options_
          /\ machine_big_endian_' = machine_big_endian_
          /\ \A at \in CallerCoordinates(hsi_data_) :
                GetValueResult(hsi_data_', at.row, at.col, at.band)
                   = GetValueResult(hsi_data_, at.row, at.col, at.band)
          /\ (op = "WriteData" /\ status' = "running")
                => fs'[SavePath] = fs[SavePath]]_vars

\* A WriteData has written a cube whose elements it had to reverse, one of
\* them not a palindrome, and the caller may write again.
C20_Witness ==
    /\ op = "WriteData"
    /\ status = "running"
    /\ ReverseByteOrder(data_options_, machine_big_endian_)
    /\ Len(hsi_data_.raw_data) > 0
    /\ fs[SavePath].exists
    /\ fs[SavePath].bytes # hsi_data_.raw_data
    /\ CallerMay("WriteData")

\* The load of the options has returned to its caller.
Loaded == chain # <<>> /\ ~header_call.pending /\ status = "running"

\* The config the last call of ReadHeaderFromFile read.
LastConfig == configs[chain[Len(chain)]]

\* A config file has a line for the key; the value of its last such line.
HasKey(lines, key) == \E i \in 1..Len(lines) : lines[i][1] = key

KeyValue(lines, key) ==
    lines[CHOOSE i \in 1..Len(lines) :
              /\ lines[i][1] = key
              /\ \A j \in (i + 1)..Len(lines) : lines[j][1] # key][2]

\* The number a string of decimal digits denotes.
RECURSIVE DecimalValue(_)
DecimalValue(chars) ==
    IF chars = <<>> THEN 0
    ELSE DecimalValue(SubSeq(chars, 1, Len(chars) - 1)) * 10
         + DigitValue(chars[Len(chars)])

\* The interleave in effect when the dimension keys of a config are
\* applied: the config's own, else the one the options had.
InterleaveInEffect(lines, previous) ==
    IF HasKey(lines, "interleave")
    THEN CASE KeyValue(lines, "interleave") = <<"b", "s", "q">> -> "BSQ"
           [] KeyValue(lines, "interleave") = <<"b", "i", "l">> -> "BIL"
           [] KeyValue(lines, "interleave") = <<"b", "i", "p">> -> "BIP"
    ELSE previous

\* The value of a dimension key, or the previous value when it is absent.
DimensionOf(lines, key, previous) ==
    IF HasKey(lines, key) THEN DecimalValue(KeyValue(lines, key))
    ELSE previous

\* C16: after a load, the interleave in effect is the config's own if it has
\* the key, else the previous one; under BSQ samples sets num_data_rows and
\* lines sets num_data_cols, under BIL and BIP lines sets num_data_rows and
\* samples sets num_data_cols; bands sets num_data_bands; a dimension whose
\* key is absent keeps its previous value.
C16_RowsAndColsByInterleave ==
    Loaded =>
        LET in_effect == InterleaveInEffect(LastConfig,
                                            options_in.interleave_format)
            rows_key == IF in_effect = "BSQ" THEN "samples" ELSE "lines"
            cols_key == IF in_effect = "BSQ" THEN "lines" ELSE "samples"
        IN  /\ options.interleave_format = in_effect
            /\ options.num_data_rows =
                  DimensionOf(LastConfig, rows_key, options_in.num_data_rows)
            /\ options.num_data_cols =
                  DimensionOf(LastConfig, cols_key, options_in.num_data_cols)
            /\ options.num_data_bands =
                  DimensionOf(LastConfig, "bands", options_in.num_data_bands)

\* Options that were BSQ, loaded from a config with interleave = bil,
\* samples = 2 and no lines: the columns are 2, the rows are kept.
C16_Witness ==
    /\ Loaded
    /\ options_in.interleave_format = "BSQ"
    /\ options_in.num_data_rows = 5
    /\ HasKey(LastConfig, "interleave")
    /\ HasKey(LastConfig, "samples")
    /\ ~HasKey(LastConfig, "lines")
    /\ options.interleave_format = "BIL"
    /\ options.num_data_cols = 2
    /\ options.num_data_rows = 5

\* The number of handles open after the first k file events of a call.
OpenHandles(events, k) ==
    Cardinality({i \in 1..k : events[i] = "open"})
    - Cardinality({i \in 1..k : events[i] = "close"})

\* C17: during a ReadData or WriteData at most one data-file handle is open,
\* and when the call has returned or failed, by a rejected range or a file
\* that could not be opened as well, no handle it opened is still open.
C17_NoHandleOutlivesCall ==
    op \in {"ReadData", "WriteData", "ReRead"} =>
        /\ \A k \in 0..Len(io) : OpenHandles(io, k) \in {0, 1}
        /\ OpenHandles(io, Len(io)) = 0
        /\ status = "exited" => \A k \in 1..Len(io) : io[k] # "open"

\* A WriteData that opened its file, wrote several elements and closed it.
C17_Witness ==
    /\ op = "WriteData"
    /\ status = "running"
    /\ Len(io) >= 4
    /\ io[1] = "open"
    /\ io[Len(io)] = "close"

\* The file path after a load: the data value of the last config read that
\* has one, else the path the options had.
InnermostData ==
    LET with_data == {i \in 1..Len(chain) : HasKey(configs[chain[i]], "data")}
    IN  IF with_data = {} THEN options_in.hsi_file_path
        ELSE KeyValue(configs[chain[CHOOSE i \in with_data :
                                        \A j \in with_data : j <= i]],
                      "data")

\* C18: when the config a load starts from has a header key, the options
\* after the load are those a load of the referenced config alone gives from
\* the same previous options: no key of the first config but data has an
\* effect; the file path is the data value of the innermost config of the
\* chain that has one, the first config's if no later one has.
C18_HeaderReplacesConfig ==
    (Loaded /\ Len(chain) >= 2) =>
        LET alone == ApplyHeaderValues(options_in,
                                       GetConfigFileValues(chain[Len(chain)],
                                                           configs)).options
        IN  /\ options.interleave_format = alone.interleave_format
            /\ options.data_type = alone.data_type
            /\ options.big_endian = alone.big_endian
            /\ options.header_offset = alone.header_offset
            /\ options.num_data_rows = alone.num_data_rows
            /\ options.num_data_cols = alone.num_data_cols
            /\ options.num_data_bands = alone.num_data_bands
            /\ options.hsi_file_path = InnermostData

\* A config with data, interleave, data type and dimension keys of its own
\* and a header key to a config that has only bands: the path is the first
\* config's, everything else is as before but the bands.
C18_Witness ==
    /\ Loaded
    /\ chain = <<HeaderA, HeaderB>>
    /\ HasKey(configs[HeaderA], "data")
    /\ HasKey(configs[HeaderA], "interleave")
    /\ HasKey(configs[HeaderA], "data type")
    /\ HasKey(configs[HeaderA], "samples")
    /\ ~HasKey(configs[HeaderB], "data")
    /\ options_in.interleave_format = "BSQ"
    /\ options.hsi_file_path = DataA
    /\ options.interleave_format = "BSQ"
    /\ options.data_type = "FLOAT"
    /\ options.num_data_rows = 5
    /\ options.num_data_bands = 10

----------------------------------------------------------------------------
(* The arithmetic of the sizes and indices: a cube of up to MaxWideDim on   *)
(* each axis, and one computation of ReadData, WriteData or GetValue on it. *)
(* Each is a function of the cube and the arguments alone, so a behaviour   *)
(* is one computation.                                                      *)

\* The options of the cubes: every format, an element of 1, 4 or 8 bytes,
\* every shape.
SizedInputs ==
    [interleave_format : InterleaveFormats,
     data_type : {"BYTE", "FLOAT", "DOUBLE"},
     shape : (1..MaxWideDim) \X (1..MaxWideDim) \X (1..MaxWideDim)]

\* The HSIDataOptions of the cube.
SizedOptions ==
    [DefaultOptions EXCEPT !.interleave_format = sized.interleave_format,
                           !.data_type = sized.data_type,
                           !.num_data_rows = sized.shape[1],
                           !.num_data_cols = sized.shape[2],
                           !.num_data_bands = sized.shape[3]]

\* The HSIData of a sub-cube of the cube, its raw_data left out.
SizedData(num_rows, num_cols, num_bands) ==
    [DefaultHSIData EXCEPT !.interleave_format = sized.interleave_format,
                           !.data_type = sized.data_type,
                           !.num_rows = num_rows,
                           !.num_cols = num_cols,
                           !.num_bands = num_bands]

\* The valid spans on an axis of d: the whole axis, and the axis without its
\* first index.
SizedSpans(d) == {<<0, d>>} \cup {<<1, d>> : x \in {d} \ {1}}

\* The first and the last index on an axis of d.
Ends(d) == {0, d - 1}

InitArith ==
    /\ sized \in SizedInputs
    /\ arith = NoArith
    /\ status = "running"
    /\ err = ""
    /\ ReaderIdle
    /\ ReverseIdle
    /\ HeaderIdle

\* ReadData of a valid range computes num_data_points and num_bytes of the
\* sub-cube.
ReadDataArith(r, c, b) ==
    LET num_rows == r[2] - r[1]
        num_cols == c[2] - c[1]
        num_bands == b[2] - b[1]
        n == num_rows * num_cols * num_bands
    IN  /\ arith = NoArith
        /\ \E got \in ReadDataSizes(num_rows, num_cols, num_bands,
                                     sized.data_type) :
              arith' = [call |-> "ReadData sizes", got |-> got,
                        exact |-> <<n, n * GetDataSize(sized.data_type)>>]
        /\ UNCHANGED <<sized, reader_vars, status, err, reverse_vars,
                       header_vars>>

\* ReadData computes next_index of a coordinate of the cube.
NextIndexArith(row, col, band) ==
    /\ arith = NoArith
    /\ \E got \in NextIndexOf(SizedOptions, row, col, band) :
          arith' = [call |-> "ReadData index", got |-> <<got>>,
                    exact |-> <<LinearIndex(sized.interleave_format,
                                            sized.shape[1], sized.shape[2],
                                            sized.shape[3], row, col, band)>>]
    /\ UNCHANGED <<sized, reader_vars, status, err, reverse_vars,
                   header_vars>>

\* WriteData of a reader that holds the whole cube computes its
\* num_data_points.
WriteDataArith ==
    LET n == NumElems(sized.shape)
        data_size == GetDataSize(sized.data_type)
    IN  /\ arith = NoArith
        /\ arith' = [call |-> "WriteData count",
                     got |-> <<WriteDataCount(n * data_size, data_size)>>,
                     exact |-> <<n>>]
        /\ UNCHANGED <<sized, reader_vars, status, err, reverse_vars,
                       header_vars>>

\* GetValue on the whole cube computes index and the offset into raw_data.
GetValueArith(row, col, band) ==
    LET hsi_data == SizedData(sized.shape[1], sized.shape[2], sized.shape[3])
        index == LinearIndex(sized.interleave_format, sized.shape[1],
                             sized.shape[2], sized.shape[3], row, col, band)
    IN  /\ arith = NoArith
        /\ \E got \in GetValueOffsets(hsi_data, row, col, band) :
              arith' = [call |-> "GetValue offset", got |-> got,
                        exact |-> <<index,
                                    index * GetDataSize(sized.data_type)>>]
        /\ UNCHANGED <<sized, reader_vars, status, err, reverse_vars,
                       header_vars>>

NextArith ==
    \/ \E r \in SizedSpans(sized.shape[1]), c \in SizedSpans(sized.shape[2]),
          b \in SizedSpans(sized.shape[3]) : ReadDataArith(r, c, b)
    \/ \E row \in Ends(sized.shape[1]), col \in Ends(sized.shape[2]),
          band \in Ends(sized.shape[3]) : NextIndexArith(row, col, band)
    \/ WriteDataArith
    \/ \E row \in Ends(sized.shape[1]), col \in Ends(sized.shape[2]),
          band \in Ends(sized.shape[3]) : GetValueArith(row, col, band)

SpecArith == InitArith /\ [][NextArith]_vars

\* C21: the arithmetic of the sizes and indices is exact for every cube and
\* valid range: the element count and byte count of ReadData, the element
\* count of WriteData, the index and byte offset of GetValue and the file
\* index of an element each equal the value of the formula over the
\* unbounded integers, with no wraparound at the width of an int.
C21_IndexArithmeticExact ==
    arith.call # "none" => arith.got = arith.exact

====
